---- MODULE Spec2Model ----
(***************************************************************************)
(* MeetingRoomBooker: the REST handlers of the booking portal over the     *)
(* relational store (users, rooms, bookings, auth_config).                 *)
(*                                                                         *)
(* A request handler is one action; its HTTP answer is left in `res`.      *)
(* A query's answer is the set of the ids of the rows it selects (the      *)
(* ORDER BY of a query changes the order of the rows only).  Columns no    *)
(* handler branches on (title, description, attendees, floor, equipment,   *)
(* timestamps) are left out of the rows.                                   *)
(***************************************************************************)
EXTENDS Integers, Sequences, FiniteSets, TLC

\* Bounds of the model.
MaxRooms == 2
MaxDate == 2
MaxTime == 2
MaxBookings == 2
MaxConfigs == 2
MaxInflight == 2
MaxUsers == 2

UserIds == {"admin-default", "u1", "u2"}
RoomIds == 1..MaxRooms
Dates == 1..MaxDate
Slots == 0..MaxTime
BookingIds == 1..MaxBookings
Statuses == {"confirmed", "cancelled"}
AuthTypes == {"jwt", "ldap", "oidc"}
RoomNames == {"A", "B"}
RegisteredIds == SubSeq(<<"user-1", "user-2", "user-3">>, 1, MaxUsers)
Usernames == {"admin", "bob"}
Passwords == {"pw1", "pw2"}

VARIABLES users, rooms, bookings, nextBookingId, authConfig, inflight, outbox, res

vars == <<users, rooms, bookings, nextBookingId, authConfig, inflight, outbox, res>>

----------------------------------------------------------------------------
(* Times of day.  The API carries a time of day as text, "HH:MM" or        *)
(* "HH:MM:SS"; slot t with sec = FALSE is the text "HH:MM" of slot t and   *)
(* with sec = TRUE the text "HH:MM:00".                                    *)

HM(t) == [t |-> t, sec |-> FALSE]
HMS(t) == [t |-> t, sec |-> TRUE]
TimeTexts == {HM(t) : t \in Slots} \cup {HMS(t) : t \in Slots}

\* JavaScript's < and <= on two such texts: character by character, and a
\* proper prefix ("10:00") is less than its extension ("10:00:00").
StrLess(a, b) == a.t < b.t \/ (a.t = b.t /\ ~a.sec /\ b.sec)
StrLeq(a, b) == a = b \/ StrLess(a, b)

\* A value of a `time` column reads back as "HH:MM:SS".
PgTime(x) == [t |-> x.t, sec |-> TRUE]

----------------------------------------------------------------------------
(* Storage layer.                                                          *)

\* getUser(id)?.role
RoleOf(u) == IF u \in DOMAIN users THEN users[u].role ELSE "none"

\* IsAdminRole with the role comparison lost: every known user passes.
IsAdminRoleAnyUser(u) == RoleOf(u) # "none"

\* `user?.role === "admin"` of the room and booking handlers
IsAdminRole(u) == RoleOf(u) = "admin"

\* getRoom(id): rooms carry serial ids 1..Len(rooms).
RoomExists(id) == id \in 1..Len(rooms)

GetActiveRooms(rm) == {i \in 1..Len(rm) : rm[i].isActive}

CreateRoom(rm, room) ==
    Append(rm, [name |-> room.name,
                isActive |-> IF "isActive" \in DOMAIN room THEN room.isActive ELSE TRUE])

UpdateRoom(rm, id, room) ==
    [i \in 1..Len(rm) |->
        IF i = id
        THEN [f \in DOMAIN rm[i] |-> IF f \in DOMAIN room THEN room[f] ELSE rm[i][f]]
        ELSE rm[i]]

\* DeleteRoom as a physical delete: the row leaves the table.
DeleteRoomHard(rm, id) ==
    IF id \in 1..Len(rm)
    THEN [i \in 1..(Len(rm) - 1) |-> IF i < id THEN rm[i] ELSE rm[i + 1]]
    ELSE rm

DeleteRoom(rm, id) ==
    [i \in 1..Len(rm) |-> IF i = id THEN [rm[i] EXCEPT !.isActive = FALSE] ELSE rm[i]]

GetAllBookings(bk) == DOMAIN bk

GetUserBookings(bk, userId) == {i \in DOMAIN bk : bk[i].userId = userId}

\* date = 0 stands for the absent (falsy) date parameter.
GetRoomBookings(bk, roomId, date) ==
    {i \in DOMAIN bk : bk[i].roomId = roomId /\ (date # 0 => bk[i].date = date)}

\* The three-condition overlap test of checkRoomAvailability.
TimesConflict(startTime, endTime, bookingStart, bookingEnd) ==
    \/ (StrLeq(bookingStart, startTime) /\ StrLess(startTime, bookingEnd))
    \/ (StrLess(bookingStart, endTime) /\ StrLeq(endTime, bookingEnd))
    \/ (StrLeq(startTime, bookingStart) /\ StrLeq(bookingEnd, endTime))

\* excludeBookingId = 0 stands for the absent (falsy) parameter.
Excluded(id, excludeBookingId) == excludeBookingId # 0 /\ id = excludeBookingId

CheckRoomAvailability(bk, roomId, date, startTime, endTime, excludeBookingId) ==
    LET conflictingBookings ==
            {i \in DOMAIN bk : /\ bk[i].roomId = roomId
                               /\ bk[i].date = date
                               /\ bk[i].status = "confirmed"}
    IN \A i \in conflictingBookings :
          \/ Excluded(i, excludeBookingId)
          \/ ~TimesConflict(startTime, endTime, bk[i].startTime, bk[i].endTime)

\* The row the insert stores: serial id, `time` columns, status default.
BookingRow(b) ==
    [userId |-> b.userId, roomId |-> b.roomId, date |-> b.date,
     startTime |-> PgTime(b.startTime), endTime |-> PgTime(b.endTime),
     status |-> IF "status" \in DOMAIN b THEN b.status ELSE "confirmed"]

CreateBooking(bk, id, b) ==
    [i \in DOMAIN bk \cup {id} |-> IF i = id THEN BookingRow(b) ELSE bk[i]]

\* The value a column holds after it is set to v.
Stored(f, v) == IF f \in {"startTime", "endTime"} THEN PgTime(v) ELSE v

UpdateBooking(bk, id, b) ==
    [i \in DOMAIN bk |->
        IF i = id
        THEN [f \in DOMAIN bk[i] |-> IF f \in DOMAIN b THEN Stored(f, b[f]) ELSE bk[i][f]]
        ELSE bk[i]]

DeleteBooking(bk, id) == [i \in DOMAIN bk \ {id} |-> bk[i]]

----------------------------------------------------------------------------
(* Request bodies.  A body is a record of the fields the request carries;  *)
(* the field `invalid` stands for a field whose value fails its type.      *)

BookingRequired == {"roomId", "date", "startTime", "endTime"}

\* insertBookingSchema.parse / insertBookingSchema.partial().parse
InsertBookingValid(b) == BookingRequired \subseteq DOMAIN b /\ "invalid" \notin DOMAIN b
PartialBookingValid(b) == "invalid" \notin DOMAIN b

\* JavaScript's `body.f || existing.f`: an absent field and roomId 0 are falsy.
Given(b, f) == f \in DOMAIN b /\ (f = "roomId" => b[f] # 0)
Effective(b, existing, f) == IF Given(b, f) THEN b[f] ELSE existing[f]

\* MayModify with the ownership test lost: every known user passes.
MayModifyAnyBooking(booking, u) == RoleOf(u) # "none"

\* "user owns the booking or is admin"
MayModify(booking, u) == booking.userId = u \/ IsAdminRole(u)

Response(op, code, user, id, rows) ==
    [op |-> op, code |-> code, user |-> user, id |-> id, rows |-> rows]

\* The password column: NULL, or the bcrypt hash of a password.
NoPassword == <<>>
HashPassword(password) == <<"bcrypt", password>>
ComparePassword(password, hash) == hash = HashPassword(password)

\* The row register and initializeDefaultAdmin insert (email and names left out).
LocalUser(username, password, role) ==
    [username |-> username, password |-> HashPassword(password),
     role |-> role, authType |-> "jwt"]

DefaultAdmin == LocalUser("admin", "pw1", "admin")

----------------------------------------------------------------------------
\* The store after start-up (the default admin) and two registrations.
Init ==
    /\ users = [u \in UserIds |->
                  IF u = "admin-default" THEN DefaultAdmin ELSE LocalUser(u, "pw1", "user")]
    /\ rooms = <<>>
    /\ bookings = <<>>
    /\ nextBookingId = 1
    /\ authConfig = <<>>
    /\ inflight = {}
    /\ outbox = {}
    /\ res = Response("none", 0, "none", 0, {})

\* The same store once the admin has created MaxRooms rooms.
InitRooms ==
    /\ users = [u \in UserIds |->
                  IF u = "admin-default" THEN DefaultAdmin ELSE LocalUser(u, "pw1", "user")]
    /\ rooms = [i \in 1..MaxRooms |-> [name |-> "A", isActive |-> TRUE]]
    /\ bookings = <<>>
    /\ nextBookingId = 1
    /\ authConfig = <<>>
    /\ inflight = {}
    /\ outbox = {}
    /\ res = Response("none", 0, "none", 0, {})

\* `sendInvite && attendees?.length > 0`; attendees is the number of addresses.
WantsInvite(body) ==
    /\ "sendInvite" \in DOMAIN body /\ body.sendInvite
    /\ "attendees" \in DOMAIN body /\ body.attendees > 0

\* What the mail provider does to the two sends of one request: whether
\* SendGrid is configured, and whether each mailService.send resolves
\* ("sent") or throws ("failed").
MailOutcomes ==
    {[configured |-> c, invites |-> i, confirmation |-> k] :
        c \in BOOLEAN, i \in {"sent", "failed"}, k \in {"sent", "failed"}}

\* sendBookingInvites / sendBookingConfirmation: "logged" when the provider is
\* not configured; a throw of the provider is caught and reported as failed.
SendResult(configured, send) == IF ~configured THEN "logged" ELSE send

\* The notification block of POST /api/bookings for the booking just stored:
\* the sends it makes, none unless getUser and getRoom find their rows.
Notifications(us, rm, u, body, id, o) ==
    IF WantsInvite(body) /\ u \in DOMAIN us /\ body.roomId \in 1..Len(rm)
    THEN {[kind |-> "invites", booking |-> id,
           result |-> SendResult(o.configured, o.invites)],
          [kind |-> "confirmation", booking |-> id,
           result |-> SendResult(o.configured, o.confirmation)]}
    ELSE {}

(* POST /api/bookings *)
PostBooking(u, body) ==
    LET validatedBooking == [f \in DOMAIN body \cup {"userId"} |->
                                IF f = "userId" THEN u ELSE body[f]]
    IN
    /\ UNCHANGED <<users, rooms, authConfig, inflight>>
    /\ IF ~InsertBookingValid(validatedBooking)
       THEN /\ res' = Response("POST /api/bookings", 400, u, 0, {})
            /\ UNCHANGED <<bookings, nextBookingId, outbox>>
       ELSE IF ~CheckRoomAvailability(bookings, validatedBooking.roomId,
                                      validatedBooking.date, validatedBooking.startTime,
                                      validatedBooking.endTime, 0)
       THEN /\ res' = Response("POST /api/bookings", 409, u, 0, {})
            /\ UNCHANGED <<bookings, nextBookingId, outbox>>
       ELSE /\ nextBookingId <= MaxBookings
            /\ bookings' = CreateBooking(bookings, nextBookingId, validatedBooking)
            /\ nextBookingId' = nextBookingId + 1
            /\ IF WantsInvite(body)
               THEN \E o \in MailOutcomes :
                       outbox' = outbox \cup
                           Notifications(users, rooms, u, body, nextBookingId, o)
               ELSE UNCHANGED outbox
            /\ res' = Response("POST /api/bookings", 201, u, nextBookingId, {})

(* PUT /api/bookings/:id *)
PutBooking(u, bookingId, body) ==
    /\ UNCHANGED <<users, outbox, rooms, authConfig, inflight, nextBookingId>>
    /\ IF bookingId \notin DOMAIN bookings
       THEN /\ res' = Response("PUT /api/bookings/:id", 404, u, bookingId, {})
            /\ UNCHANGED bookings
       ELSE LET existingBooking == bookings[bookingId] IN
            IF ~MayModify(existingBooking, u)
            THEN /\ res' = Response("PUT /api/bookings/:id", 403, u, bookingId, {})
                 /\ UNCHANGED bookings
            ELSE IF ~PartialBookingValid(body)
            THEN /\ res' = Response("PUT /api/bookings/:id", 400, u, bookingId, {})
                 /\ UNCHANGED bookings
            ELSE IF /\ (Given(body, "date") \/ Given(body, "startTime")
                          \/ Given(body, "endTime") \/ Given(body, "roomId"))
                    /\ ~CheckRoomAvailability(bookings,
                            Effective(body, existingBooking, "roomId"),
                            Effective(body, existingBooking, "date"),
                            Effective(body, existingBooking, "startTime"),
                            Effective(body, existingBooking, "endTime"),
                            bookingId)
            THEN /\ res' = Response("PUT /api/bookings/:id", 409, u, bookingId, {})
                 /\ UNCHANGED bookings
            ELSE /\ bookings' = UpdateBooking(bookings, bookingId, body)
                 /\ res' = Response("PUT /api/bookings/:id", 200, u, bookingId, {})

(* DELETE /api/bookings/:id *)
DeleteBookingReq(u, bookingId) ==
    /\ UNCHANGED <<users, outbox, rooms, authConfig, inflight, nextBookingId>>
    /\ IF bookingId \notin DOMAIN bookings
       THEN /\ res' = Response("DELETE /api/bookings/:id", 404, u, bookingId, {})
            /\ UNCHANGED bookings
       ELSE IF ~MayModify(bookings[bookingId], u)
       THEN /\ res' = Response("DELETE /api/bookings/:id", 403, u, bookingId, {})
            /\ UNCHANGED bookings
       ELSE /\ bookings' = DeleteBooking(bookings, bookingId)
            /\ res' = Response("DELETE /api/bookings/:id", 204, u, bookingId, {})

----------------------------------------------------------------------------
(* The same two handlers with their awaits as separate steps: the handler  *)
(* runs up to the answer of checkRoomAvailability, other requests may run, *)
(* and it resumes with its insert or update.  `inflight` holds the         *)
(* requests suspended between the two.                                     *)

(* POST /api/bookings up to the availability check *)
PostCheck(u, body) ==
    LET validatedBooking == [f \in DOMAIN body \cup {"userId"} |->
                                IF f = "userId" THEN u ELSE body[f]]
    IN
    /\ UNCHANGED <<users, outbox, rooms, authConfig, bookings, nextBookingId>>
    /\ IF ~InsertBookingValid(validatedBooking)
       THEN /\ res' = Response("POST /api/bookings", 400, u, 0, {})
            /\ UNCHANGED inflight
       ELSE IF ~CheckRoomAvailability(bookings, validatedBooking.roomId,
                                      validatedBooking.date, validatedBooking.startTime,
                                      validatedBooking.endTime, 0)
       THEN /\ res' = Response("POST /api/bookings", 409, u, 0, {})
            /\ UNCHANGED inflight
       ELSE /\ Cardinality(inflight) < MaxInflight
            /\ inflight' = inflight \cup
                    {[op |-> "POST", user |-> u, id |-> 0, body |-> validatedBooking]}
            /\ UNCHANGED res

(* POST /api/bookings from createBooking to the notification block (or to *)
(* the answer, when no notification is asked for)                          *)
PostInsert(p) ==
    /\ p \in inflight /\ p.op = "POST"
    /\ nextBookingId <= MaxBookings
    /\ bookings' = CreateBooking(bookings, nextBookingId, p.body)
    /\ nextBookingId' = nextBookingId + 1
    /\ IF WantsInvite(p.body)
       THEN /\ inflight' = (inflight \ {p}) \cup
                   {[op |-> "NOTIFY", user |-> p.user, id |-> nextBookingId,
                     body |-> p.body]}
            /\ UNCHANGED res
       ELSE /\ inflight' = inflight \ {p}
            /\ res' = Response("POST /api/bookings", 201, p.user, nextBookingId, {})
    /\ UNCHANGED <<users, outbox, rooms, authConfig>>

\* PostNotify with a failed send undoing the booking and answering 500.
PostNotifyOrFail(p, o) ==
    /\ p \in inflight /\ p.op = "NOTIFY"
    /\ outbox' = outbox \cup Notifications(users, rooms, p.user, p.body, p.id, o)
    /\ inflight' = inflight \ {p}
    /\ IF \E m \in Notifications(users, rooms, p.user, p.body, p.id, o) :
             m.result = "failed"
       THEN /\ bookings' = DeleteBooking(bookings, p.id)
            /\ res' = Response("POST /api/bookings", 500, p.user, p.id, {})
       ELSE /\ UNCHANGED bookings
            /\ res' = Response("POST /api/bookings", 201, p.user, p.id, {})
    /\ UNCHANGED <<users, rooms, authConfig, nextBookingId>>

(* POST /api/bookings from the notification block to the answer *)
PostNotify(p, o) ==
    /\ p \in inflight /\ p.op = "NOTIFY"
    /\ outbox' = outbox \cup Notifications(users, rooms, p.user, p.body, p.id, o)
    /\ inflight' = inflight \ {p}
    /\ res' = Response("POST /api/bookings", 201, p.user, p.id, {})
    /\ UNCHANGED <<users, rooms, authConfig, bookings, nextBookingId>>

(* PUT /api/bookings/:id up to the availability check *)
PutCheck(u, bookingId, body) ==
    /\ UNCHANGED <<users, outbox, rooms, authConfig, bookings, nextBookingId>>
    /\ IF bookingId \notin DOMAIN bookings
       THEN /\ res' = Response("PUT /api/bookings/:id", 404, u, bookingId, {})
            /\ UNCHANGED inflight
       ELSE LET existingBooking == bookings[bookingId] IN
            IF ~MayModify(existingBooking, u)
            THEN /\ res' = Response("PUT /api/bookings/:id", 403, u, bookingId, {})
                 /\ UNCHANGED inflight
            ELSE IF ~PartialBookingValid(body)
            THEN /\ res' = Response("PUT /api/bookings/:id", 400, u, bookingId, {})
                 /\ UNCHANGED inflight
            ELSE IF /\ (Given(body, "date") \/ Given(body, "startTime")
                          \/ Given(body, "endTime") \/ Given(body, "roomId"))
                    /\ ~CheckRoomAvailability(bookings,
                            Effective(body, existingBooking, "roomId"),
                            Effective(body, existingBooking, "date"),
                            Effective(body, existingBooking, "startTime"),
                            Effective(body, existingBooking, "endTime"),
                            bookingId)
            THEN /\ res' = Response("PUT /api/bookings/:id", 409, u, bookingId, {})
                 /\ UNCHANGED inflight
            ELSE /\ Cardinality(inflight) < MaxInflight
                 /\ inflight' = inflight \cup
                         {[op |-> "PUT", user |-> u, id |-> bookingId, body |-> body]}
                 /\ UNCHANGED res

(* PUT /api/bookings/:id from updateBooking on *)
PutWrite(p) ==
    /\ p \in inflight /\ p.op = "PUT"
    /\ bookings' = UpdateBooking(bookings, p.id, p.body)
    /\ inflight' = inflight \ {p}
    /\ res' = Response("PUT /api/bookings/:id", 200, p.user, p.id, {})
    /\ UNCHANGED <<users, outbox, rooms, authConfig, nextBookingId>>

(* GET /api/bookings *)
GetBookings(u) ==
    /\ res' = Response("GET /api/bookings", 200, u, 0,
                       IF IsAdminRole(u) THEN GetAllBookings(bookings)
                                         ELSE GetUserBookings(bookings, u))
    /\ UNCHANGED <<users, outbox, rooms, bookings, nextBookingId, authConfig, inflight>>

(* GET /api/bookings/my *)
GetMyBookings(u) ==
    /\ res' = Response("GET /api/bookings/my", 200, u, 0, GetUserBookings(bookings, u))
    /\ UNCHANGED <<users, outbox, rooms, bookings, nextBookingId, authConfig, inflight>>

(* GET /api/bookings/room/:roomId?date= *)
GetRoomBookingsReq(u, roomId, date) ==
    /\ res' = Response("GET /api/bookings/room/:roomId", 200, u, roomId,
                       GetRoomBookings(bookings, roomId, date))
    /\ UNCHANGED <<users, outbox, rooms, bookings, nextBookingId, authConfig, inflight>>

----------------------------------------------------------------------------
(* Room handlers.                                                          *)

\* insertRoomSchema.parse / insertRoomSchema.partial().parse
InsertRoomValid(b) == "name" \in DOMAIN b /\ "invalid" \notin DOMAIN b
PartialRoomValid(b) == "invalid" \notin DOMAIN b

(* GET /api/rooms *)
GetRooms(u) ==
    /\ res' = Response("GET /api/rooms", 200, u, 0, GetActiveRooms(rooms))
    /\ UNCHANGED <<users, outbox, rooms, bookings, nextBookingId, authConfig, inflight>>

(* GET /api/rooms/:id *)
GetRoom(u, roomId) ==
    /\ res' = IF RoomExists(roomId)
              THEN Response("GET /api/rooms/:id", 200, u, roomId, {roomId})
              ELSE Response("GET /api/rooms/:id", 404, u, roomId, {})
    /\ UNCHANGED <<users, outbox, rooms, bookings, nextBookingId, authConfig, inflight>>

(* POST /api/rooms *)
PostRoom(u, body) ==
    /\ UNCHANGED <<users, outbox, bookings, nextBookingId, authConfig, inflight>>
    /\ IF ~IsAdminRole(u)
       THEN /\ res' = Response("POST /api/rooms", 403, u, 0, {})
            /\ UNCHANGED rooms
       ELSE IF ~InsertRoomValid(body)
       THEN /\ res' = Response("POST /api/rooms", 400, u, 0, {})
            /\ UNCHANGED rooms
       ELSE /\ Len(rooms) < MaxRooms
            /\ rooms' = CreateRoom(rooms, body)
            /\ res' = Response("POST /api/rooms", 201, u, Len(rooms) + 1, {})

(* PUT /api/rooms/:id *)
PutRoom(u, roomId, body) ==
    /\ UNCHANGED <<users, outbox, bookings, nextBookingId, authConfig, inflight>>
    /\ IF ~IsAdminRole(u)
       THEN /\ res' = Response("PUT /api/rooms/:id", 403, u, roomId, {})
            /\ UNCHANGED rooms
       ELSE IF ~PartialRoomValid(body)
       THEN /\ res' = Response("PUT /api/rooms/:id", 400, u, roomId, {})
            /\ UNCHANGED rooms
       ELSE /\ rooms' = UpdateRoom(rooms, roomId, body)
            /\ res' = Response("PUT /api/rooms/:id", 200, u, roomId, {})

(* DELETE /api/rooms/:id *)
DeleteRoomReq(u, roomId) ==
    /\ UNCHANGED <<users, outbox, bookings, nextBookingId, authConfig, inflight>>
    /\ IF ~IsAdminRole(u)
       THEN /\ res' = Response("DELETE /api/rooms/:id", 403, u, roomId, {})
            /\ UNCHANGED rooms
       ELSE /\ rooms' = DeleteRoom(rooms, roomId)
            /\ res' = Response("DELETE /api/rooms/:id", 204, u, roomId, {})

----------------------------------------------------------------------------
(* Auth configuration handlers.                                            *)

\* The isAdmin middleware.
IsAdmin(u) == u \in DOMAIN users /\ users[u].role = "admin"

\* getActiveAuthConfig: the ids of the active rows (the query takes one).
ActiveConfigs(cfg) == {i \in 1..Len(cfg) : cfg[i].isActive}

\* setAuthConfig: deactivate every row, then insert the new active row.
SetAuthConfig(cfg, authType) ==
    Append([i \in 1..Len(cfg) |-> [cfg[i] EXCEPT !.isActive = FALSE]],
           [authType |-> authType, isActive |-> TRUE])

\* authConfigSchema.parse
AuthConfigValid(b) == "authType" \in DOMAIN b /\ b.authType \in AuthTypes

(* GET /api/auth/config *)
GetAuthConfig(u) ==
    /\ res' = IF ~IsAdmin(u)
              THEN Response("GET /api/auth/config", 403, u, 0, {})
              ELSE Response("GET /api/auth/config", 200, u, 0, ActiveConfigs(authConfig))
    /\ UNCHANGED <<users, outbox, rooms, bookings, nextBookingId, authConfig, inflight>>

(* POST /api/auth/config *)
PostAuthConfig(u, body) ==
    /\ UNCHANGED <<users, outbox, rooms, bookings, nextBookingId, inflight>>
    /\ IF ~IsAdmin(u)
       THEN /\ res' = Response("POST /api/auth/config", 403, u, 0, {})
            /\ UNCHANGED authConfig
       ELSE IF ~AuthConfigValid(body)
       THEN /\ res' = Response("POST /api/auth/config", 400, u, 0, {})
            /\ UNCHANGED authConfig
       ELSE /\ Len(authConfig) < MaxConfigs
            /\ authConfig' = SetAuthConfig(authConfig, body.authType)
            /\ res' = Response("POST /api/auth/config", 200, u, 0, {})

\* setAuthConfig's first statement: UPDATE auth_config SET is_active = false.
DeactivateAll(cfg) == [i \in 1..Len(cfg) |-> [cfg[i] EXCEPT !.isActive = FALSE]]

\* setAuthConfig's second statement: INSERT the new row with is_active = true.
InsertActive(cfg, authType) == Append(cfg, [authType |-> authType, isActive |-> TRUE])

(* POST /api/auth/config up to the end of setAuthConfig's UPDATE: the handler *)
(* then waits for the INSERT, and other requests run in between.             *)
ConfigDeactivate(u, body) ==
    /\ UNCHANGED <<users, outbox, rooms, bookings, nextBookingId>>
    /\ IF ~IsAdmin(u)
       THEN /\ res' = Response("POST /api/auth/config", 403, u, 0, {})
            /\ UNCHANGED <<authConfig, inflight>>
       ELSE IF ~AuthConfigValid(body)
       THEN /\ res' = Response("POST /api/auth/config", 400, u, 0, {})
            /\ UNCHANGED <<authConfig, inflight>>
       ELSE /\ Cardinality(inflight) < MaxInflight
            /\ Len(authConfig) + Cardinality(inflight) < MaxConfigs
            /\ authConfig' = DeactivateAll(authConfig)
            /\ inflight' = inflight \cup
                   {[op |-> "CONFIG", user |-> u, id |-> 0, body |-> body]}
            /\ UNCHANGED res

(* POST /api/auth/config from setAuthConfig's INSERT to the answer. *)
ConfigInsert(p) ==
    /\ p.op = "CONFIG"
    /\ authConfig' = InsertActive(authConfig, p.body.authType)
    /\ inflight' = inflight \ {p}
    /\ res' = Response("POST /api/auth/config", 200, p.user, 0, {})
    /\ UNCHANGED <<users, outbox, rooms, bookings, nextBookingId>>

(* POST /api/bookings/check-availability: the body's fields go to          *)
(* checkRoomAvailability as they are; excludeBookingId 0 is the absent one. *)
CheckAvailabilityReq(u, body) ==
    /\ res' = Response("POST /api/bookings/check-availability", 200, u,
                       body.excludeBookingId,
                       {<<"available",
                          CheckRoomAvailability(bookings, body.roomId, body.date,
                                                body.startTime, body.endTime,
                                                body.excludeBookingId)>>})
    /\ UNCHANGED <<users, outbox, rooms, bookings, nextBookingId, authConfig, inflight>>

----------------------------------------------------------------------------
(* Dashboard statistics.                                                   *)

\* Math with the fraction cut off instead of rounded.
MathFloor(num, den) == num \div den

\* Math.round(num / den) for num >= 0 and den > 0: halves round up.
MathRound(num, den) == (2 * num + den) \div (2 * den)

\* getBookingStats at the date `today` and the minute `now` of the clock;
\* currentTime is the text "HH:MM" and is compared, as text, with the
\* "HH:MM:SS" texts of the time columns.
GetBookingStats(rm, bk, today, now) ==
    LET currentTime == HM(now)
        totalRooms == Cardinality(GetActiveRooms(rm))
        todayBookings == {i \in DOMAIN bk : bk[i].date = today
                                             /\ bk[i].status = "confirmed"}
        current == {i \in todayBookings : /\ StrLeq(bk[i].startTime, currentTime)
                                          /\ StrLess(currentTime, bk[i].endTime)}
    IN [totalRooms |-> totalRooms,
        availableRooms |-> totalRooms - Cardinality(current),
        totalBookingsToday |-> Cardinality(todayBookings),
        utilizationRate |->
            IF totalRooms > 0
            THEN MathRound(Cardinality(todayBookings) * 100, totalRooms * 8)
            ELSE 0]

\* The JSON object of the answer, as the set of its <<field, value>> pairs.
StatsRows(stats) == {<<f, stats[f]>> : f \in DOMAIN stats}

(* GET /api/stats *)
GetStats(u, today, now) ==
    /\ res' = Response("GET /api/stats", 200, u, 0,
                       StatsRows(GetBookingStats(rooms, bookings, today, now)))
    /\ UNCHANGED <<users, outbox, rooms, bookings, nextBookingId, authConfig, inflight>>

----------------------------------------------------------------------------
(* Authentication: login, registration, bearer tokens.                     *)

\* getUserByUsername: username is a unique column.
GetUserByUsername(us, username) == {v \in DOMAIN us : us[v].username = username}

\* `authConfig?.authType || "jwt"` over getActiveAuthConfig's `limit 1`: the
\* type of any one active row, "jwt" when no row is active.
CurrentAuthTypes(cfg) ==
    IF ActiveConfigs(cfg) = {} THEN {"jwt"}
    ELSE {cfg[i].authType : i \in ActiveConfigs(cfg)}

\* What the directory does to one authenticateLDAP call: the step that fails,
\* or "ok" with the uid attribute of the entry found ("" when it has none).
\* The directory is outside the program, so its uid may be any text, the id
\* of a local row included.
LdapUids == {"", "admin-default"}

LdapFailures ==
    {[step |-> s] : s \in {"bindError", "searchError", "noEntry", "rebindRefused"}}

LdapOutcomes == LdapFailures \cup {[step |-> "ok", uid |-> x] : x \in LdapUids}

\* The userData authenticateLDAP hands to createOrUpdateUser.
LdapUserData(username, o) ==
    [id |-> IF o.uid = "" THEN username ELSE o.uid,
     username |-> username, role |-> "user", authType |-> "ldap"]

\* createOrUpdateUser fails on the unique username of another row.
UpsertThrows(us, userData) ==
    \E v \in DOMAIN us : v # userData.id /\ us[v].username = userData.username

\* createOrUpdateUser: INSERT ... ON CONFLICT (id) DO UPDATE SET the given
\* columns; the columns userData does not name keep their values (a new row
\* has no password).
CreateOrUpdateUser(us, userData) ==
    [v \in DOMAIN us \cup {userData.id} |->
        IF v = userData.id
        THEN [username |-> userData.username,
              password |-> IF v \in DOMAIN us THEN us[v].password ELSE NoPassword,
              role |-> userData.role, authType |-> userData.authType]
        ELSE us[v]]

\* authenticateLDAP: "throw" (the promise rejects), "null", or "user".
AuthenticateLDAP(us, username, o) ==
    IF o.step \in {"bindError", "searchError"} THEN "throw"
    ELSE IF o.step \in {"noEntry", "rebindRefused"} THEN "null"
    ELSE IF UpsertThrows(us, LdapUserData(username, o)) THEN "throw"
    ELSE "user"

\* loginSchema.parse: both texts have at least one character.
LoginValid(username, password) == username # "" /\ password # ""

(* POST /api/auth/login *)
Login(username, password, o) ==
    /\ UNCHANGED <<rooms, bookings, nextBookingId, authConfig, inflight, outbox>>
    /\ IF ~LoginValid(username, password)
       THEN /\ res' = Response("POST /api/auth/login", 400, username, 0, {})
            /\ UNCHANGED users
       ELSE \E authType \in CurrentAuthTypes(authConfig) :
            IF authType = "ldap"
            THEN LET user == AuthenticateLDAP(users, username, o)
                     userData == LdapUserData(username, o)
                 IN IF user = "throw"
                    THEN /\ res' = Response("POST /api/auth/login", 500, username, 0, {})
                         /\ UNCHANGED users
                    ELSE IF user = "null"
                    THEN /\ res' = Response("POST /api/auth/login", 401, username, 0, {})
                         /\ UNCHANGED users
                    ELSE /\ users' = CreateOrUpdateUser(users, userData)
                         /\ res' = Response("POST /api/auth/login", 200, username, 0,
                                            {userData.id})
            ELSE LET foundUser == GetUserByUsername(users, username)
                 IN /\ UNCHANGED users
                    /\ IF foundUser = {}
                       THEN res' = Response("POST /api/auth/login", 401, username, 0, {})
                       ELSE \E v \in foundUser :
                            IF users[v].password = NoPassword
                            THEN res' = Response("POST /api/auth/login", 401, username, 0, {})
                            ELSE IF ~ComparePassword(password, users[v].password)
                            THEN res' = Response("POST /api/auth/login", 401, username, 0, {})
                            ELSE res' = Response("POST /api/auth/login", 200, username, 0, {v})

\* registerSchema.parse: the username has at least three characters.
RegisterValid(username, password) == username # "" /\ password # ""

\* `user-${Date.now()}`: an id no earlier registration has.
NewUserIds(us) == {RegisteredIds[i] : i \in {j \in 1..Len(RegisteredIds) :
                        /\ RegisteredIds[j] \notin DOMAIN us
                        /\ \A k \in 1..(j - 1) : RegisteredIds[k] \in DOMAIN us}}

\* Register with the role granted to the first account that registers.
RegisterFirstIsAdmin(username, password) ==
    /\ UNCHANGED <<rooms, bookings, nextBookingId, authConfig, inflight, outbox>>
    /\ "jwt" \in CurrentAuthTypes(authConfig)
    /\ RegisterValid(username, password) /\ GetUserByUsername(users, username) = {}
    /\ \E id \in NewUserIds(users) :
         /\ users' = [v \in DOMAIN users \cup {id} |->
                         IF v # id THEN users[v]
                         ELSE LocalUser(username, password,
                                        IF DOMAIN users = {"admin-default"}
                                        THEN "admin" ELSE "user")]
         /\ res' = Response("POST /api/auth/register", 201, username, 0, {id})

(* POST /api/auth/register *)
Register(username, password) ==
    /\ UNCHANGED <<rooms, bookings, nextBookingId, authConfig, inflight, outbox>>
    /\ \E authType \in CurrentAuthTypes(authConfig) :
        IF authType # "jwt"
        THEN /\ res' = Response("POST /api/auth/register", 400, username, 0, {})
             /\ UNCHANGED users
        ELSE IF ~RegisterValid(username, password)
        THEN /\ res' = Response("POST /api/auth/register", 400, username, 0, {})
             /\ UNCHANGED users
        ELSE IF GetUserByUsername(users, username) # {}
        THEN /\ res' = Response("POST /api/auth/register", 409, username, 0, {})
             /\ UNCHANGED users
        ELSE \E id \in NewUserIds(users) :
             /\ users' = [v \in DOMAIN users \cup {id} |->
                             IF v = id THEN LocalUser(username, password, "user")
                             ELSE users[v]]
             /\ res' = Response("POST /api/auth/register", 201, username, 0, {id})

\* A bearer token: absent, not a signed token, signed but expired, or signed
\* and current for the user id it carries.
TokenKinds == {"none", "garbage", "expired", "valid"}

\* verifyJWT: jwt.verify, then getUser(decoded.id); any throw is null.
VerifyJWT(us, token) ==
    IF token.kind = "valid" /\ token.id \in DOMAIN us THEN token.id ELSE "null"

\* The isAuthenticated middleware: the user the request runs as, or "null".
\* A session is the id passport deserializes ("none" when there is none).
IsAuthenticated(us, session, token) ==
    IF session \in DOMAIN us THEN session
    ELSE IF token.kind # "none" THEN VerifyJWT(us, token)
    ELSE "null"

(* GET /api/auth/user *)
GetAuthUser(session, token) ==
    LET user == IsAuthenticated(users, session, token)
    IN /\ res' = IF user = "null"
                 THEN Response("GET /api/auth/user", 401, "none", 0, {})
                 ELSE Response("GET /api/auth/user", 200, user, 0, {user})
       /\ UNCHANGED <<users, outbox, rooms, bookings, nextBookingId, authConfig, inflight>>

----------------------------------------------------------------------------
(* Requests.                                                               *)

Intervals == {<<s, e>> \in Slots \X Slots : s < e}

SlotBodies(fmts) ==
    {[roomId |-> r, date |-> d,
      startTime |-> [t |-> i[1], sec |-> x], endTime |-> [t |-> i[2], sec |-> x]] :
        r \in RoomIds, d \in Dates, i \in Intervals, x \in fmts}

PostBodies == SlotBodies({FALSE, TRUE}) \cup {[roomId |-> 1, invalid |-> TRUE]}

PutBodies ==
    {[status |-> s] : s \in Statuses}
    \cup {[startTime |-> HM(i[1]), endTime |-> HM(i[2])] : i \in Intervals}
    \cup {[roomId |-> r] : r \in RoomIds}
    \cup {[date |-> d] : d \in Dates}
    \cup {[status |-> "confirmed", invalid |-> TRUE]}

Members == UserIds \ {"admin-default"}

(* The booking handlers, one request at a time, over MaxRooms rooms. *)
NextBookings ==
    \/ \E u \in Members, body \in PostBodies : PostBooking(u, body)
    \/ \E u \in UserIds, id \in BookingIds, body \in PutBodies : PutBooking(u, id, body)
    \/ \E u \in UserIds, id \in BookingIds : DeleteBookingReq(u, id)

SpecBookings == InitRooms /\ [][NextBookings]_vars

(* Booking requests for one room and date whose awaits interleave. *)
ConcBodies ==
    {[roomId |-> 1, date |-> 1, startTime |-> HM(i[1]), endTime |-> HM(i[2])] :
        i \in Intervals}

ConcPutBodies == {[startTime |-> HM(i[1]), endTime |-> HM(i[2])] : i \in Intervals}

NextConc ==
    \/ \E u \in Members, body \in ConcBodies : PostCheck(u, body)
    \/ \E p \in inflight : PostInsert(p)
    \/ \E u \in Members, id \in BookingIds, body \in ConcPutBodies : PutCheck(u, id, body)
    \/ \E p \in inflight : PutWrite(p)

SpecConc == InitRooms /\ [][NextConc]_vars

(* The booking queries over bookings of every user, room and date. *)
ReadBodies ==
    {[roomId |-> r, date |-> d, startTime |-> HM(0), endTime |-> HM(1)] :
        r \in RoomIds, d \in Dates}

NextRead ==
    \/ \E u \in Members, body \in ReadBodies : PostBooking(u, body)
    \/ \E u \in UserIds : GetBookings(u)
    \/ \E u \in UserIds : GetMyBookings(u)
    \/ \E u \in UserIds, r \in RoomIds, d \in {0} \cup Dates : GetRoomBookingsReq(u, r, d)

SpecRead == InitRooms /\ [][NextRead]_vars

(* The room handlers from the empty rooms table, with bookings of the rooms. *)
RoomBodies == {[name |-> n] : n \in RoomNames} \cup {[invalid |-> TRUE]}

RoomPutBodies ==
    {[name |-> n] : n \in RoomNames} \cup {[isActive |-> b] : b \in BOOLEAN}
    \cup {[invalid |-> TRUE]}

RoomBookingBodies ==
    {[roomId |-> r, date |-> 1, startTime |-> HM(0), endTime |-> HM(1)] : r \in RoomIds}

NextRooms ==
    \/ \E u \in UserIds : GetRooms(u)
    \/ \E u \in UserIds, body \in RoomBodies : PostRoom(u, body)
    \/ \E u \in UserIds, r \in RoomIds, body \in RoomPutBodies : PutRoom(u, r, body)
    \/ \E u \in UserIds, r \in RoomIds : DeleteRoomReq(u, r)
    \/ \E u \in Members, body \in RoomBookingBodies : PostBooking(u, body)
    \/ \E u \in UserIds : GetBookings(u)
    \/ \E u \in UserIds, r \in RoomIds : GetRoomBookingsReq(u, r, 0)

SpecRooms == Init /\ [][NextRooms]_vars

(* The booking writes of every user over bookings of one slot per room. *)
OwnerPutBodies ==
    {[status |-> st] : st \in Statuses} \cup {[roomId |-> r] : r \in RoomIds}
    \cup {[status |-> "confirmed", invalid |-> TRUE]}

NextOwners ==
    \/ \E u \in Members, body \in RoomBookingBodies : PostBooking(u, body)
    \/ \E u \in UserIds, id \in BookingIds, body \in OwnerPutBodies :
            PutBooking(u, id, body)
    \/ \E u \in UserIds, id \in BookingIds : DeleteBookingReq(u, id)

SpecOwners == InitRooms /\ [][NextOwners]_vars

(* The admin-only handlers: rooms and the auth configuration. *)
ConfigBodies == {[authType |-> t] : t \in AuthTypes} \cup {[authType |-> "saml"]}

Next ==
    \/ \E u \in UserIds : GetRooms(u)
    \/ \E u \in UserIds, r \in RoomIds : GetRoom(u, r)
    \/ \E u \in UserIds, body \in RoomBodies : PostRoom(u, body)
    \/ \E u \in UserIds, r \in RoomIds, body \in RoomPutBodies : PutRoom(u, r, body)
    \/ \E u \in UserIds, r \in RoomIds : DeleteRoomReq(u, r)
    \/ \E u \in UserIds : GetAuthConfig(u)
    \/ \E u \in UserIds, body \in ConfigBodies : PostAuthConfig(u, body)

Spec == Init /\ [][Next]_vars

(* Auth configuration switches whose two statements interleave. *)
NextConfig ==
    \/ \E u \in UserIds, body \in ConfigBodies : ConfigDeactivate(u, body)
    \/ \E p \in inflight : ConfigInsert(p)
    \/ \E u \in UserIds : GetAuthConfig(u)

SpecConfig == Init /\ [][NextConfig]_vars

(* Registration, login and config switches from the store after start-up. *)
InitAuth ==
    /\ users = [u \in {"admin-default"} |-> DefaultAdmin]
    /\ rooms = <<>>
    /\ bookings = <<>>
    /\ nextBookingId = 1
    /\ authConfig = <<>>
    /\ inflight = {}
    /\ outbox = {}
    /\ res = Response("none", 0, "none", 0, {})

LoginNames == Usernames \cup {""}

AuthConfigBodies == {[authType |-> t] : t \in {"jwt", "ldap"}}

Tokens ==
    {[kind |-> k, id |-> v] : k \in TokenKinds, v \in {"admin-default", "user-1"}}

NextAuth ==
    \/ \E username \in LoginNames, password \in Passwords, o \in LdapOutcomes :
            Login(username, password, o)
    \/ \E username \in LoginNames, password \in Passwords : Register(username, password)
    \/ \E body \in AuthConfigBodies : PostAuthConfig("admin-default", body)
    \/ \E session \in {"none", "admin-default"}, token \in Tokens :
            GetAuthUser(session, token)

SpecAuth == InitAuth /\ [][NextAuth]_vars

(* Bookings that ask for notification mails, for a room that exists and *)
(* for one that does not.                                                *)
MailBodies ==
    {[roomId |-> r, date |-> 1, startTime |-> HM(0), endTime |-> HM(1),
      sendInvite |-> s, attendees |-> n] :
        r \in {1, MaxRooms + 1}, s \in BOOLEAN, n \in {0, 1}}

NextMail ==
    \/ \E body \in MailBodies : PostCheck("u1", body)
    \/ \E p \in inflight : PostInsert(p)
    \/ \E p \in inflight, o \in MailOutcomes : PostNotify(p, o)
    \/ \E body \in MailBodies : PostBooking("u1", body)

\* Every send of the provider returns or throws, so a notification block that
\* has started runs to its end.
SpecMail ==
    /\ InitRooms /\ [][NextMail]_vars
    /\ WF_vars(\E p \in inflight, o \in MailOutcomes : PostNotify(p, o))

(* The dashboard statistics over rooms that are created and deactivated and *)
(* bookings of every room, date and interval that are cancelled and          *)
(* confirmed again.                                                          *)
StatsBodies ==
    {[roomId |-> r, date |-> d, startTime |-> HM(i[1]), endTime |-> HM(i[2])] :
        r \in RoomIds, d \in Dates, i \in Intervals}

NextStats ==
    \/ PostRoom("admin-default", [name |-> "A"])
    \/ \E r \in RoomIds : DeleteRoomReq("admin-default", r)
    \/ \E body \in StatsBodies : PostBooking("u1", body)
    \/ \E id \in BookingIds, st \in Statuses : PutBooking("u1", id, [status |-> st])
    \/ \E today \in Dates, now \in Slots : GetStats("u1", today, now)

SpecStats == Init /\ [][NextStats]_vars

(* The same statistics over bookings of one room and interval on every date. *)
UtilBodies ==
    {[roomId |-> 1, date |-> d, startTime |-> HM(0), endTime |-> HM(1)] : d \in Dates}

NextUtil ==
    \/ PostRoom("admin-default", [name |-> "A"])
    \/ \E r \in RoomIds : DeleteRoomReq("admin-default", r)
    \/ \E body \in UtilBodies : PostBooking("u1", body)
    \/ \E id \in BookingIds, st \in Statuses : PutBooking("u1", id, [status |-> st])
    \/ \E today \in Dates, now \in Slots : GetStats("u1", today, now)

SpecUtil == Init /\ [][NextUtil]_vars

(* The handlers that address one room or one booking by its id, asked by a *)
(* user who may write the row, from the empty store.                       *)
NextIds ==
    \/ PostRoom("admin-default", [name |-> "A"])
    \/ \E r \in RoomIds : GetRoom("u1", r)
    \/ \E r \in RoomIds, n \in RoomNames : PutRoom("admin-default", r, [name |-> n])
    \/ \E r \in RoomIds : DeleteRoomReq("admin-default", r)
    \/ \E body \in RoomBookingBodies : PostBooking("u1", body)
    \/ \E id \in BookingIds, st \in Statuses : PutBooking("u1", id, [status |-> st])
    \/ \E id \in BookingIds : DeleteBookingReq("u1", id)

SpecIds == Init /\ [][NextIds]_vars

(* Booking writes whose intervals may be empty or inverted. *)
AnyIntervalBodies ==
    {[roomId |-> 1, date |-> 1, startTime |-> HM(s), endTime |-> HM(e)] :
        s \in Slots, e \in Slots}

AnyIntervalPutBodies ==
    {[startTime |-> HM(s)] : s \in Slots} \cup {[endTime |-> HM(e)] : e \in Slots}
    \cup {[startTime |-> HM(s), endTime |-> HM(e)] : s \in Slots, e \in Slots}

NextIntervals ==
    \/ \E body \in AnyIntervalBodies : PostBooking("u1", body)
    \/ \E id \in BookingIds, body \in AnyIntervalPutBodies : PutBooking("u1", id, body)

SpecIntervals == InitRooms /\ [][NextIntervals]_vars

(* checkRoomAvailability over every store of at most MaxBookings bookings *)
(* with well-formed intervals, as the handlers above leave them: confirmed *)
(* or cancelled, of any room and date, overlapping or not.                 *)
StoredRows ==
    {[userId |-> "u1", roomId |-> r, date |-> d, startTime |-> HMS(i[1]),
      endTime |-> HMS(i[2]), status |-> st] :
        r \in RoomIds, d \in Dates, i \in Intervals, st \in Statuses}

InitAvail ==
    /\ users = [u \in UserIds |->
                  IF u = "admin-default" THEN DefaultAdmin ELSE LocalUser(u, "pw1", "user")]
    /\ rooms = [i \in 1..MaxRooms |-> [name |-> "A", isActive |-> TRUE]]
    /\ bookings \in UNION {[ids -> StoredRows] : ids \in SUBSET BookingIds}
    /\ nextBookingId = MaxBookings + 1
    /\ authConfig = <<>>
    /\ inflight = {}
    /\ outbox = {}
    /\ res = Response("none", 0, "none", 0, {})

AvailBodies ==
    {[f \in DOMAIN b \cup {"excludeBookingId"} |->
         IF f = "excludeBookingId" THEN x ELSE b[f]] :
        b \in SlotBodies({FALSE, TRUE}), x \in {0} \cup BookingIds}

NextAvail == \E body \in AvailBodies : CheckAvailabilityReq("u1", body)

SpecAvail == InitAvail /\ [][NextAvail]_vars

(* PUT requests carrying every subset of roomId, date, startTime, endTime, *)
(* with times written as the stored rows read back.                        *)
MergeFull ==
    {[roomId |-> r, date |-> d, startTime |-> HMS(i[1]), endTime |-> HMS(i[2])] :
        r \in {0} \cup RoomIds, d \in Dates, i \in Intervals}

MergePutBodies ==
    {[f \in S |-> full[f]] : full \in MergeFull, S \in SUBSET BookingRequired}

MergePostBodies ==
    {[roomId |-> r, date |-> 1, startTime |-> HMS(i[1]), endTime |-> HMS(i[2])] :
        r \in RoomIds, i \in Intervals}

NextMerge ==
    \/ \E body \in MergePostBodies : PostBooking("u1", body)
    \/ \E id \in BookingIds, body \in MergePutBodies : PutBooking("u1", id, body)

SpecMerge == InitRooms /\ [][NextMerge]_vars

(* authenticateLDAP step by step: each callback of the directory client   *)
(* runs when the directory answers, and other requests run in between.    *)
(* An in-flight login records its position and the steps that succeeded.  *)
LdapCall(username, pc, uid, log) ==
    [op |-> "LDAP", user |-> username, id |-> 0,
     body |-> [pc |-> pc, uid |-> uid, log |-> log]]

(* POST /api/auth/login up to the call of authenticateLDAP. *)
LdapStart(username, password) ==
    /\ LoginValid(username, password)
    /\ "ldap" \in CurrentAuthTypes(authConfig)
    /\ Cardinality(inflight) < MaxInflight
    /\ inflight' = inflight \cup {LdapCall(username, "config", "", <<>>)}
    /\ UNCHANGED <<users, rooms, bookings, nextBookingId, authConfig, outbox, res>>

\* An in-flight login p ends with the answer `code`.
LdapAnswer(p, code, rows) ==
    /\ inflight' = inflight \ {p}
    /\ res' = Response("POST /api/auth/login", code, p.user, 0, rows)

\* An in-flight login p moves on to position pc.
LdapGoto(p, pc, uid) ==
    /\ inflight' = (inflight \ {p})
                      \cup {LdapCall(p.user, pc, uid, Append(p.body.log, p.body.pc))}
    /\ UNCHANGED res

(* authenticateLDAP reads the active configuration itself and throws when *)
(* it is not ldap.                                                         *)
LdapConfig(p) ==
    /\ p.op = "LDAP" /\ p.body.pc = "config"
    /\ \E authType \in CurrentAuthTypes(authConfig) :
          IF ActiveConfigs(authConfig) = {} \/ authType # "ldap"
          THEN LdapAnswer(p, 500, {})
          ELSE LdapGoto(p, "bind", "")
    /\ UNCHANGED <<users, rooms, bookings, nextBookingId, authConfig, outbox>>

(* The callback of the bind with the service account. *)
LdapBind(p, err) ==
    /\ p.op = "LDAP" /\ p.body.pc = "bind"
    /\ IF err THEN LdapAnswer(p, 500, {}) ELSE LdapGoto(p, "search", "")
    /\ UNCHANGED <<users, rooms, bookings, nextBookingId, authConfig, outbox>>

\* What the search reports: an error, no entry, or an entry with its uid.
LdapSearchResults ==
    {[kind |-> "error"], [kind |-> "end"]}
    \cup {[kind |-> "entry", uid |-> x] : x \in LdapUids}

(* The callbacks of the search: error, or end with or without an entry. *)
LdapSearch(p, found) ==
    /\ p.op = "LDAP" /\ p.body.pc = "search"
    /\ IF found.kind = "error" THEN LdapAnswer(p, 500, {})
       ELSE IF found.kind = "end" THEN LdapAnswer(p, 401, {})
       ELSE LdapGoto(p, "rebind", found.uid)
    /\ UNCHANGED <<users, rooms, bookings, nextBookingId, authConfig, outbox>>

\* LdapRebind with the error of the user bind ignored.
LdapRebindUnchecked(p, err) ==
    /\ p.op = "LDAP" /\ p.body.pc = "rebind"
    /\ inflight' = (inflight \ {p})
                      \cup {LdapCall(p.user, "upsert", p.body.uid,
                                     IF err THEN p.body.log
                                     ELSE Append(p.body.log, "rebind"))}
    /\ UNCHANGED <<users, rooms, bookings, nextBookingId, authConfig, outbox, res>>

(* The callback of the bind as the entry found, with the password supplied. *)
LdapRebind(p, err) ==
    /\ p.op = "LDAP" /\ p.body.pc = "rebind"
    /\ IF err THEN LdapAnswer(p, 401, {}) ELSE LdapGoto(p, "upsert", p.body.uid)
    /\ UNCHANGED <<users, rooms, bookings, nextBookingId, authConfig, outbox>>

(* createOrUpdateUser and the answer of the login. *)
LdapUpsert(p) ==
    /\ p.op = "LDAP" /\ p.body.pc = "upsert"
    /\ LET userData == LdapUserData(p.user, [step |-> "ok", uid |-> p.body.uid])
       IN IF UpsertThrows(users, userData)
          THEN /\ LdapAnswer(p, 500, {})
               /\ UNCHANGED users
          ELSE /\ users' = CreateOrUpdateUser(users, userData)
               /\ LdapAnswer(p, 200, {userData.id})
    /\ UNCHANGED <<rooms, bookings, nextBookingId, authConfig, outbox>>

(* Directory logins whose callbacks interleave, and config switches. *)
NextLdap ==
    \/ \E username \in Usernames, password \in {"pw1"} : LdapStart(username, password)
    \/ \E p \in inflight : LdapConfig(p)
    \/ \E p \in inflight, err \in BOOLEAN : LdapBind(p, err)
    \/ \E p \in inflight, found \in LdapSearchResults : LdapSearch(p, found)
    \/ \E p \in inflight, err \in BOOLEAN : LdapRebind(p, err)
    \/ \E p \in inflight : LdapUpsert(p)
    \/ \E body \in AuthConfigBodies : PostAuthConfig("admin-default", body)

SpecLdap == InitAuth /\ [][NextLdap]_vars

(* Logins and registrations while setAuthConfig runs statement by statement. *)
SwitchBodies == {[authType |-> t] : t \in {"ldap", "oidc"}}

NextSwitch ==
    \/ \E body \in SwitchBodies : ConfigDeactivate("admin-default", body)
    \/ \E p \in inflight : ConfigInsert(p)
    \/ \E username \in Usernames, o \in LdapOutcomes : Login(username, "pw1", o)
    \/ \E username \in Usernames : Register(username, "pw1")

SpecSwitch == InitAuth /\ [][NextSwitch]_vars

(* Booking requests whose bodies name a userId of their own. *)
UserIdPostBodies ==
    {[roomId |-> 1, date |-> d, startTime |-> HM(0), endTime |-> HM(1), userId |-> v] :
        d \in Dates, v \in UserIds}

UserIdPutBodies ==
    {[userId |-> v] : v \in UserIds}
    \cup {[date |-> d] : d \in Dates}
    \cup {[status |-> st] : st \in Statuses}

NextUserIds ==
    \/ \E u \in Members, body \in UserIdPostBodies : PostBooking(u, body)
    \/ \E u \in UserIds, id \in BookingIds, body \in UserIdPutBodies :
            PutBooking(u, id, body)

SpecUserIds == InitRooms /\ [][NextUserIds]_vars

(* The requests open to visitors and to users without the admin role, in *)
(* jwt and in ldap mode (the mode is the admin's to set).                *)
NonAdmins == {v \in DOMAIN users : users[v].role # "admin"}

NextPublic ==
    \/ \E username \in Usernames, password \in Passwords, o \in LdapOutcomes :
            Login(username, password, o)
    \/ \E username \in Usernames : Register(username, "pw1")
    \/ \E u \in NonAdmins :
            PostBooking(u, [roomId |-> 1, date |-> 1, startTime |-> HM(0),
                            endTime |-> HM(1)])
    \/ \E u \in NonAdmins, id \in BookingIds : PutBooking(u, id, [status |-> "cancelled"])
    \/ \E u \in NonAdmins : PostRoom(u, [name |-> "A"])
    \/ \E body \in AuthConfigBodies : PostAuthConfig("admin-default", body)

SpecPublic == InitAuth /\ [][NextPublic]_vars

(* The booking form (BookingModal).  A time input holds the text "HH:MM",  *)
(* kept here as the pair <<hours, minutes>> its two-digit fields denote    *)
(* (<<>> is the empty input); the form is the one record in flight on the  *)
(* client, and a submitted form is the request in flight to the server.    *)
MinuteStep == 15

FormStartTimes == {<<h, m>> : h \in 0..23, m \in {k \in 0..59 : k % MinuteStep = 0}}

\* The options of the duration select and the limits of bookingFormSchema.
FormDurations == {30, 60, 90, 120, 180, 240} \cup {15, 480}

\* The end-time effect: startTime.split(':').map(Number), the sum in
\* minutes, hours modulo 24, and both fields padded to two digits.
EndTime(startTime, duration) ==
    LET hours == startTime[1]
        minutes == startTime[2]
        startMinutes == hours * 60 + minutes
        endMinutes == startMinutes + duration
        endHours == (endMinutes \div 60) % 24
        endMins == endMinutes % 60
    IN <<endHours, endMins>>

\* useEffect on [startTime, duration]: runs when both are truthy.
FormEffect(form) ==
    IF form.startTime # <<>> /\ form.duration # 0
    THEN [form EXCEPT !.endTime = EndTime(form.startTime, form.duration)]
    ELSE form

FormRecord(form) == [op |-> "FORM", user |-> "u1", id |-> 0, body |-> form]

\* form.reset for a new booking.
DefaultForm == [startTime |-> <<>>, endTime |-> <<>>, duration |-> 60]

InitForm ==
    /\ users = [u \in UserIds |->
                  IF u = "admin-default" THEN DefaultAdmin ELSE LocalUser(u, "pw1", "user")]
    /\ rooms = [i \in 1..MaxRooms |-> [name |-> "A", isActive |-> TRUE]]
    /\ bookings = <<>>
    /\ nextBookingId = 1
    /\ authConfig = <<>>
    /\ inflight = {FormRecord(DefaultForm)}
    /\ outbox = {}
    /\ res = Response("none", 0, "none", 0, {})

(* The user picks a start time; the effect sets the end time. *)
FormSetStartTime(p, startTime) ==
    /\ p.op = "FORM"
    /\ inflight' = (inflight \ {p})
                      \cup {FormRecord(FormEffect([p.body EXCEPT !.startTime = startTime]))}
    /\ UNCHANGED <<users, rooms, bookings, nextBookingId, authConfig, outbox, res>>

(* The user picks a duration; the effect sets the end time. *)
FormSetDuration(p, duration) ==
    /\ p.op = "FORM"
    /\ inflight' = (inflight \ {p})
                      \cup {FormRecord(FormEffect([p.body EXCEPT !.duration = duration]))}
    /\ UNCHANGED <<users, rooms, bookings, nextBookingId, authConfig, outbox, res>>

(* onSubmit: duration is dropped and the form's startTime and endTime are *)
(* sent, first to check-availability and then with the booking.           *)
FormSubmit(p) ==
    /\ p.op = "FORM"
    /\ p.body.duration >= 15 /\ p.body.duration <= 480
    /\ inflight' = (inflight \ {p})
                      \cup {[op |-> "SUBMIT", user |-> p.user, id |-> 0,
                             body |-> [startTime |-> p.body.startTime,
                                       endTime |-> p.body.endTime]]}
    /\ UNCHANGED <<users, rooms, bookings, nextBookingId, authConfig, outbox, res>>

(* The answer arrives and the modal is opened for the next booking. *)
FormOpen(q) ==
    /\ q.op = "SUBMIT"
    /\ inflight' = (inflight \ {q}) \cup {FormRecord(DefaultForm)}
    /\ UNCHANGED <<users, rooms, bookings, nextBookingId, authConfig, outbox, res>>

NextForm ==
    \/ \E p \in inflight, startTime \in FormStartTimes : FormSetStartTime(p, startTime)
    \/ \E p \in inflight, duration \in FormDurations : FormSetDuration(p, duration)
    \/ \E p \in inflight : FormSubmit(p)
    \/ \E q \in inflight : FormOpen(q)

SpecForm == InitForm /\ [][NextForm]_vars

----------------------------------------------------------------------------
(* Properties.                                                             *)

\* Two rows whose half-open intervals [startTime, endTime) share an instant.
Overlap(a, b) == a.startTime.t < b.endTime.t /\ b.startTime.t < a.endTime.t

ConfirmedOn(bk, roomId, date) ==
    {i \in DOMAIN bk : bk[i].roomId = roomId /\ bk[i].date = date
                        /\ bk[i].status = "confirmed"}

\* The confirmed bookings other than `except` that overlap [startTime, endTime).
Clashes(bk, roomId, date, startTime, endTime, except) ==
    {i \in ConfirmedOn(bk, roomId, date) \ {except} :
        Overlap([startTime |-> startTime, endTime |-> endTime], bk[i])}

BookingWrites == {"PUT /api/bookings/:id", "DELETE /api/bookings/:id"}

BookingReads ==
    {"GET /api/bookings", "GET /api/bookings/my", "GET /api/bookings/room/:roomId"}

AdminOnly ==
    {"POST /api/rooms", "PUT /api/rooms/:id", "DELETE /api/rooms/:id",
     "GET /api/auth/config", "POST /api/auth/config"}

\* C1: with requests handled one at a time, no two confirmed bookings of one
\* room and date overlap.
C1_NoConfirmedOverlap ==
    \A i, j \in DOMAIN bookings :
        (/\ i # j
         /\ bookings[i].status = "confirmed" /\ bookings[j].status = "confirmed"
         /\ bookings[i].roomId = bookings[j].roomId
         /\ bookings[i].date = bookings[j].date)
        => ~Overlap(bookings[i], bookings[j])

\* C2: with the check and the write of concurrent requests interleaved, the
\* confirmed bookings of every room and date are pairwise disjoint.
C2_NoConfirmedOverlapConcurrent ==
    \A r \in RoomIds, d \in Dates :
        \A i \in ConfirmedOn(bookings, r, d) :
            Clashes(bookings, r, d, bookings[i].startTime, bookings[i].endTime, i) = {}

\* C3: a valid POST, or a PUT by the owner or an admin that leaves the booking
\* confirmed, whose effective room, date and interval overlap another confirmed
\* booking is answered 409 and changes no booking.
C3_ConflictAnswered409 ==
    [][/\ res'.op = "POST /api/bookings"
          => \A body \in PostBodies :
                (/\ InsertBookingValid(body)
                 /\ Clashes(bookings, body.roomId, body.date,
                             body.startTime, body.endTime, 0) # {}
                 /\ PostBooking(res'.user, body))
                => (res'.code = 409 /\ bookings' = bookings)
       /\ (res'.op = "PUT /api/bookings/:id" /\ res'.id \in DOMAIN bookings)
          => \A body \in PutBodies :
                LET id == res'.id
                    u == res'.user
                IN (/\ PartialBookingValid(body)
                    /\ bookings[id].userId = u \/ users[u].role = "admin"
                    /\ Effective(body, bookings[id], "status") = "confirmed"
                    /\ Clashes(bookings, Effective(body, bookings[id], "roomId"),
                                Effective(body, bookings[id], "date"),
                                Effective(body, bookings[id], "startTime"),
                                Effective(body, bookings[id], "endTime"), id) # {}
                    /\ PutBooking(u, id, body))
                   => (res'.code = 409 /\ bookings' = bookings)
      ]_vars

\* C4: a request that starts when the only confirmed booking of its room and
\* date ends, or ends when it starts, is reported available.
C4_TouchingIsAvailable ==
    \A i \in DOMAIN bookings :
        ConfirmedOn(bookings, bookings[i].roomId, bookings[i].date) = {i}
        => \A s, e \in TimeTexts :
              (s.t < e.t /\ (s.t = bookings[i].endTime.t \/ e.t = bookings[i].startTime.t))
              => CheckRoomAvailability(bookings, bookings[i].roomId, bookings[i].date,
                                       s, e, 0)

\* C5: a PUT by the owner or an admin whose effective room, date, start and end
\* are the ones the confirmed booking already has is answered 200.
C5_SameSlotPutSucceeds ==
    [][(res'.op = "PUT /api/bookings/:id" /\ res'.id \in DOMAIN bookings)
        => \A body \in PutBodies :
              LET id == res'.id
                  u == res'.user
              IN (/\ bookings[id].status = "confirmed"
                  /\ bookings[id].userId = u \/ users[u].role = "admin"
                  /\ DOMAIN body \subseteq BookingRequired
                  /\ \A f \in DOMAIN body : Stored(f, body[f]) = bookings[id][f]
                  /\ PutBooking(u, id, body))
                 => res'.code = 200
      ]_vars

\* C6: an admin-only request of a user who is not admin is answered 403 and
\* changes neither the rooms nor the auth configuration.
C6_NonAdminForbidden ==
    [][(res'.op \in AdminOnly /\ users[res'.user].role # "admin")
        => (res'.code = 403 /\ rooms' = rooms /\ authConfig' = authConfig)
      ]_vars

C6_Witness ==
    /\ res.op \in AdminOnly /\ res.user = "u1" /\ res.code = 403
    /\ Len(rooms) > 0 /\ Len(authConfig) > 0

\* C7: a PUT or DELETE of an existing booking by a user who neither owns it nor
\* is admin is answered 403 and changes no booking; by its owner or an admin it
\* is not answered 403.
C7_OwnerOrAdminOnly ==
    [][(res'.op \in BookingWrites /\ res'.id \in DOMAIN bookings)
        => IF bookings[res'.id].userId # res'.user /\ users[res'.user].role # "admin"
           THEN res'.code = 403 /\ bookings' = bookings
           ELSE res'.code # 403
      ]_vars

C7_Witness ==
    /\ res.op \in BookingWrites /\ res.code = 403 /\ res.user = "u2"
    /\ res.id \in DOMAIN bookings /\ bookings[res.id].userId = "u1"

\* C8: every booking a booking query returns to a user who is not admin is
\* owned by that user.
C8_OnlyOwnBookingsReturned ==
    (res.op \in BookingReads /\ users[res.user].role # "admin")
    => \A i \in res.rows : bookings[i].userId = res.user

\* C9: no step removes a room row, and DELETE /api/rooms/:id of an existing
\* room sets that row's isActive to FALSE and changes nothing else: the room
\* leaves getActiveRooms and its bookings stay stored and are still selected
\* by the booking queries.
C9_RoomDeleteIsSoft ==
    [][/\ Len(rooms') >= Len(rooms)
       /\ (res'.op = "DELETE /api/rooms/:id" /\ res'.code = 204
              /\ res'.id \in 1..Len(rooms))
           => /\ rooms' = [rooms EXCEPT ![res'.id].isActive = FALSE]
              /\ res'.id \notin GetActiveRooms(rooms')
              /\ \A i \in DOMAIN bookings :
                    bookings[i].roomId = res'.id
                    => /\ i \in DOMAIN bookings' /\ bookings'[i] = bookings[i]
                       /\ i \in GetRoomBookings(bookings', res'.id, 0)
                       /\ i \in GetUserBookings(bookings', bookings[i].userId)
                       /\ i \in GetAllBookings(bookings')
      ]_vars

C9_Witness ==
    /\ res.op = "DELETE /api/rooms/:id" /\ res.code = 204
    /\ res.id \in 1..Len(rooms) /\ ~rooms[res.id].isActive
    /\ GetRoomBookings(bookings, res.id, 0) # {}

\* C10: no step removes a booking row, and a DELETE /api/bookings/:id answered
\* 204 leaves the row stored with status cancelled.
C10_BookingDeleteIsSoft ==
    [][\A i \in DOMAIN bookings :
            /\ i \in DOMAIN bookings'
            /\ (res'.op = "DELETE /api/bookings/:id" /\ res'.code = 204 /\ res'.id = i)
               => bookings'[i].status = "cancelled"
      ]_vars


\* C11: at most one auth_config row is active in every reachable state, the
\* states between the two statements of interleaved setAuthConfig calls
\* included.
C11_AtMostOneActiveConfig == Cardinality(ActiveConfigs(authConfig)) <= 1


\* C12: in LDAP mode a login whose authenticateLDAP call fails at any step
\* (service-account bind error, search error, no matching entry, rebind
\* refused) is answered 401 and changes no user row.
C12_LdapFailureIs401 ==
    [][(res'.op = "POST /api/auth/login" /\ CurrentAuthTypes(authConfig) = {"ldap"})
        => \A username \in Usernames, password \in Passwords, o \in LdapFailures :
              Login(username, password, o) => (res'.code = 401 /\ users' = users)
      ]_vars


\* A login that authenticates no one: on the local path the username is
\* unknown, its row has no password hash or the password is wrong; on the LDAP
\* path authenticateLDAP fails at one of its steps.
BadCredentials(username, password, o) ==
    IF CurrentAuthTypes(authConfig) = {"ldap"}
    THEN o \in LdapFailures
    ELSE \A v \in DOMAIN users :
            users[v].username = username
            => users[v].password # <<"bcrypt", password>>

\* A bearer token that identifies no stored user.
BadToken(token) == token.kind # "valid" \/ token.id \notin DOMAIN users

\* C13: a login that fails to authenticate is answered 401 and stores nothing,
\* whether the local or the LDAP strategy is active, and a request to a
\* protected route with no session and a missing, invalid or expired token, or
\* a token of a user that does not exist, is answered 401.
C13_AuthFailureIs401 ==
    [][/\ res'.op = "POST /api/auth/login"
          => \A username \in Usernames, password \in Passwords, o \in LdapOutcomes :
                (BadCredentials(username, password, o) /\ Login(username, password, o))
                => (res'.code = 401 /\ users' = users)
       /\ res'.op = "GET /api/auth/user"
          => \A token \in Tokens :
                (BadToken(token) /\ GetAuthUser("none", token)) => res'.code = 401
      ]_vars


\* The POST /api/bookings requests whose booking is stored and whose
\* notification block has not finished.
Notifying == {p \in inflight : p.op = "NOTIFY"}

\* C14: a notification mail is sent only for a booking that is already stored,
\* and whatever the mail provider does (send failure, exception, missing user
\* or room, provider not configured) a POST /api/bookings whose createBooking
\* succeeded is answered 201 with its booking left stored.
C14_MailNeverChangesOutcome ==
    /\ [][/\ \A m \in outbox' \ outbox :
                /\ m.booking \in DOMAIN bookings'
                /\ nextBookingId' = nextBookingId => m.booking \in DOMAIN bookings
          /\ \A p \in Notifying \ inflight' :
                /\ res' = Response("POST /api/bookings", 201, p.user, p.id, {})
                /\ p.id \in DOMAIN bookings /\ bookings' = bookings
          /\ (nextBookingId' # nextBookingId /\ inflight' = inflight)
             => /\ res' = Response("POST /api/bookings", 201, res'.user, nextBookingId, {})
                /\ nextBookingId \in DOMAIN bookings'
         ]_vars
    /\ \A id \in BookingIds :
          (\E p \in Notifying : p.id = id)
          ~> (res.op = "POST /api/bookings" /\ res.code = 201 /\ res.id = id
                 /\ id \in DOMAIN bookings)

C14_Witness ==
    /\ res.op = "POST /api/bookings" /\ res.code = 201 /\ res.id \in DOMAIN bookings
    /\ \E m \in outbox : m.booking = res.id /\ m.result = "failed"


\* The confirmed bookings of the room on the date whose half-open interval
\* [startTime, endTime) holds the minute `now`.
BookedNow(roomId, today, now) ==
    {i \in ConfirmedOn(bookings, roomId, today) :
        bookings[i].startTime.t <= now /\ now < bookings[i].endTime.t}

\* C15: the availableRooms of every GET /api/stats answer is the number of
\* active rooms that have no confirmed booking today whose [start, end) holds
\* the current time, whatever rooms and bookings are stored.
C15_AvailableRoomsCountsFreeRooms ==
    [][res'.op = "GET /api/stats"
        => \A today \in Dates, now \in Slots :
              GetStats(res'.user, today, now)
              => <<"availableRooms",
                   Cardinality({r \in GetActiveRooms(rooms) :
                                    BookedNow(r, today, now) = {}})>> \in res'.rows
      ]_vars

\* C16: the utilizationRate of every GET /api/stats answer is the integer
\* nearest to (today's confirmed bookings) / (active rooms x 8) x 100, halves
\* up, and 0 when no room is active; totalBookingsToday is the number of
\* today's confirmed bookings, so cancelled bookings and bookings of other
\* dates count in neither.
C16_UtilizationRate ==
    [][res'.op = "GET /api/stats"
        => \A today \in Dates, now \in Slots :
              GetStats(res'.user, today, now)
              => LET n == Cardinality({i \in DOMAIN bookings :
                                          /\ bookings[i].date = today
                                          /\ bookings[i].status = "confirmed"})
                     active == Cardinality({r \in 1..Len(rooms) : rooms[r].isActive})
                 IN /\ <<"totalBookingsToday", n>> \in res'.rows
                    /\ \E k \in 0..(100 * MaxBookings) :
                          /\ <<"utilizationRate", k>> \in res'.rows
                          /\ IF active = 0 THEN k = 0
                             ELSE /\ (2 * k - 1) * (active * 8) <= 2 * (100 * n)
                                  /\ 2 * (100 * n) < (2 * k + 1) * (active * 8)
      ]_vars

\* One confirmed booking today, a cancelled one and two active rooms: 6.
C16_Witness ==
    /\ res.op = "GET /api/stats" /\ <<"utilizationRate", 6>> \in res.rows
    /\ Cardinality(GetActiveRooms(rooms)) = 2
    /\ \E i \in DOMAIN bookings : bookings[i].status = "cancelled"


RoomById == {"GET /api/rooms/:id", "PUT /api/rooms/:id", "DELETE /api/rooms/:id"}

\* C17: a GET, PUT or DELETE of a room id that no room has, and a PUT or
\* DELETE of a booking id that no booking has, is answered 404 and changes
\* neither the rooms nor the bookings.
C17_MissingIdIs404 ==
    [][((res'.op \in RoomById /\ res'.id \notin 1..Len(rooms))
         \/ (res'.op \in BookingWrites /\ res'.id \notin DOMAIN bookings))
        => (res'.code = 404 /\ rooms' = rooms /\ bookings' = bookings)
      ]_vars

\* C18: the startTime of every stored booking is before its endTime.
C18_StoredIntervalsWellFormed ==
    \A i \in DOMAIN bookings : bookings[i].startTime.t < bookings[i].endTime.t


\* C19: a login answered 200 authenticates its user through the credential
\* path the user's authType names (the local password for jwt, the directory
\* for ldap), and no user whose authType is ldap has a password hash stored.
C19_OneCredentialPath ==
    /\ (res.op = "POST /api/auth/login" /\ res.code = 200)
       => \A v \in res.rows :
             users[v].authType =
                 (IF CurrentAuthTypes(authConfig) = {"ldap"} THEN "ldap" ELSE "jwt")
    /\ \A v \in DOMAIN users : users[v].authType = "ldap" => users[v].password = <<>>


\* C20: for every room, date, excluded id and well-formed interval, the
\* availability check answers false exactly when a confirmed booking of that
\* room and date, other than the excluded one, overlaps the interval
\* (newStart < existingEnd and existingStart < newEnd).
C20_AvailabilityMatchesOverlap ==
    [][res'.op = "POST /api/bookings/check-availability"
        => \A body \in AvailBodies :
              CheckAvailabilityReq(res'.user, body)
              => <<"available",
                   Clashes(bookings, body.roomId, body.date, body.startTime,
                           body.endTime, body.excludeBookingId) = {}>> \in res'.rows
      ]_vars


\* C21: a PUT /api/bookings/:id carrying a subset of roomId, date, startTime,
\* endTime is answered 409 exactly when the availability check fails on the
\* tuple that takes each field from the request when the request carries it
\* and from the stored booking otherwise, the edited booking excluded; after
\* a 200 the stored booking holds the request's values for the fields
\* supplied and its previous values for all others.
C21_PutMergesRequest ==
    [][(res'.op = "PUT /api/bookings/:id" /\ res'.code \in {200, 409})
        => \A body \in MergePutBodies :
              PutBooking(res'.user, res'.id, body)
              => LET old == bookings[res'.id]
                     merged == [f \in BookingRequired |->
                                   IF f \in DOMAIN body THEN body[f] ELSE old[f]]
                 IN /\ (DOMAIN body # {})
                         => ((res'.code = 409)
                              <=> ~CheckRoomAvailability(bookings, merged.roomId,
                                       merged.date, merged.startTime,
                                       merged.endTime, res'.id))
                    /\ (res'.code = 200)
                         => bookings' =
                              [bookings EXCEPT ![res'.id] =
                                 [f \in DOMAIN old |->
                                     IF f \in DOMAIN body
                                     THEN Stored(f, body[f]) ELSE old[f]]]
      ]_vars


\* The steps an in-flight directory login has passed.
LdapLogs == {p.body.log : p \in {q \in inflight : q.op = "LDAP"}}

\* C22: authenticateLDAP follows the order service bind, search, user
\* rebind, upsert.  The rebind is attempted only after the service bind
\* succeeded and the search returned an entry; a user row is created or
\* updated only by a login whose rebind succeeded; the row written then has
\* authType ldap and is the user the login returns.
C22_LdapStepOrder ==
    [][/\ \A p \in inflight' :
             (p.op = "LDAP" /\ p.body.pc = "rebind")
             => p.body.log = <<"config", "bind", "search">>
       /\ users' # users
             => \E p \in inflight \ inflight' :
                   /\ p.op = "LDAP"
                   /\ p.body.log = <<"config", "bind", "search", "rebind">>
                   /\ res'.op = "POST /api/auth/login" /\ res'.code = 200
                   /\ \E v \in res'.rows :
                         /\ res'.rows = {v}
                         /\ users'[v].authType = "ldap"
                         /\ users'[v].username = p.user
                         /\ \A w \in DOMAIN users' \ {v} :
                               w \in DOMAIN users /\ users'[w] = users[w]
      ]_vars

C22_Witness ==
    /\ res.op = "POST /api/auth/login" /\ res.code = 200
    /\ \E v \in res.rows : v \in DOMAIN users /\ users[v].authType = "ldap"


\* The strategies a request may be dispatched by: the active type, or during
\* a switch the type being left (the newest row) and the types being set.
SwitchTypes ==
    IF ActiveConfigs(authConfig) # {}
    THEN {authConfig[i].authType : i \in ActiveConfigs(authConfig)}
    ELSE {authConfig[Len(authConfig)].authType}
         \cup {p.body.authType : p \in {q \in inflight : q.op = "CONFIG"}}

\* C23: once an auth configuration has been activated, every later state has
\* an active configuration, and a login or registration that reads it during
\* a switch from type A to type B is dispatched by A or by B, never by
\* another strategy (the jwt default taken when no active row is found).
C23_AlwaysAnActiveConfig ==
    [][/\ Len(authConfig') > 0 => ActiveConfigs(authConfig') # {}
       /\ (Len(authConfig) > 0 /\ res' # res
             /\ res'.op \in {"POST /api/auth/login", "POST /api/auth/register"})
          => \A username \in Usernames :
                /\ Register(username, "pw1")
                      => (res'.code = 400 <=> "jwt" \notin SwitchTypes)
                /\ \A o \in LdapOutcomes :
                      (Login(username, "pw1", o) /\ users' # users)
                      => "ldap" \in SwitchTypes
      ]_vars


\* C24: a booking's userId is the id of the authenticated user who created
\* it.  POST /api/bookings stores the session user's id whatever userId the
\* body carries, and no PUT /api/bookings/:id, by owner or admin, changes
\* the userId of an existing booking.
C24_UserIdIsCreator ==
    [][/\ \A i \in DOMAIN bookings' \ DOMAIN bookings :
             res'.op = "POST /api/bookings" /\ bookings'[i].userId = res'.user
       /\ \A i \in DOMAIN bookings' \cap DOMAIN bookings :
             bookings'[i].userId = bookings[i].userId
      ]_vars


\* C25: no public request (register, login in jwt or ldap mode, booking and
\* room requests by non-admins) creates a user with role admin or raises a
\* user's role.  A registration answered 201 stores role user, and the only
\* admin is the default admin of start-up.
C25_NoRoleEscalation ==
    [][/\ \A v \in DOMAIN users' :
             users'[v].role = "admin"
             => (v \in DOMAIN users /\ users[v].role = "admin")
       /\ (res'.op = "POST /api/auth/register" /\ res'.code = 201)
             => \A v \in res'.rows :
                   v \notin DOMAIN users /\ users'[v].role = "user"
       /\ \A v \in DOMAIN users' : users'[v].role = "admin" => v = "admin-default"
      ]_vars

C25_Witness ==
    /\ \E v \in DOMAIN users \ {"admin-default"} :
          users[v].authType = "jwt" /\ users[v].role = "user"
    /\ \E v \in DOMAIN users : users[v].authType = "ldap"
    /\ bookings # <<>>


\* C26: a successful LDAP login of a user who already has a local row may
\* update the row's profile fields but leaves its role unchanged (a user
\* holding role admin is still admin after logging in again).
C26_LdapLoginKeepsRole ==
    [][(res'.op = "POST /api/auth/login" /\ res'.code = 200)
        => \A v \in res'.rows :
              v \in DOMAIN users => users'[v].role = users[v].role
      ]_vars


\* C27: in every reachable state, for every day and time of day,
\* getBookingStats returns 0 <= availableRooms <= totalRooms, also after
\* rooms holding a current confirmed booking have been deactivated and with
\* two confirmed bookings of one room containing the current time.
C27_AvailableRoomsInRange ==
    \A today \in Dates, now \in Slots :
        LET stats == GetBookingStats(rooms, bookings, today, now)
        IN 0 <= stats.availableRooms /\ stats.availableRooms <= stats.totalRooms


\* C28: every booking accepted by POST /api/bookings or moved by
\* PUT /api/bookings/:id names a room that exists and is active when the
\* request is served; a request naming a missing or deactivated room is
\* rejected and stores nothing.
C28_BookedRoomIsActive ==
    [][res'.op \in {"POST /api/bookings", "PUT /api/bookings/:id"}
        => \A i \in DOMAIN bookings' :
              (\/ i \notin DOMAIN bookings
               \/ \E f \in BookingRequired : bookings'[i][f] # bookings[i][f])
              => bookings'[i].roomId \in GetActiveRooms(rooms)
      ]_vars


\* C29: the verdict of checkRoomAvailability is the same whether the
\* request's times are written HH:MM or HH:MM:SS: every answer equals the
\* answer for the same times written like the stored ones (for a stored
\* confirmed 09:00:00-10:00:00, the request 10:00-11:00 is available and
\* the request 09:30-10:30 is not).
C29_VerdictIgnoresTimeFormat ==
    [][res'.op = "POST /api/bookings/check-availability"
        => \A body \in AvailBodies :
              CheckAvailabilityReq(res'.user, body)
              => <<"available",
                   CheckRoomAvailability(bookings, body.roomId, body.date,
                                         PgTime(body.startTime), PgTime(body.endTime),
                                         body.excludeBookingId)>> \in res'.rows
      ]_vars


\* The minute of the day a time text denotes, and the order of two texts.
MinuteOfDay(time) == time[1] * 60 + time[2]
TextLess(a, b) == a[1] < b[1] \/ (a[1] = b[1] /\ a[2] < b[2])

\* C30: for every start time 00:00-23:59 and every allowed duration (15 to
\* 480 minutes) the form's end time is the start time plus the duration on
\* the same day and is later than the start time, and the form never submits
\* an interval whose end is at or before its start.
C30_EndTimeAfterStart ==
    \A p \in inflight :
        /\ (p.op = "FORM" /\ p.body.startTime # <<>>)
              => /\ MinuteOfDay(p.body.endTime)
                       = MinuteOfDay(p.body.startTime) + p.body.duration
                 /\ TextLess(p.body.startTime, p.body.endTime)
        /\ (p.op = "SUBMIT" /\ p.body.startTime # <<>>)
              => TextLess(p.body.startTime, p.body.endTime)

====
